---------------------------- MODULE Spec2Model ----------------------------
(***************************************************************************)
(* Model of app.py (Minu's Jobfit Resume): the word diff renderer          *)
(* highlight_differences, the prompt builder build_prompt_for_openai, the  *)
(* chat call call_openai_chat, the DOCX extraction with its temporary      *)
(* file, and the "Generate Tailored Resume" button handler.                *)
(*                                                                         *)
(* Text is a sequence of one-character strings.  Python indices are        *)
(* 0-based and ranges half open; At and Slice keep that convention.        *)
(***************************************************************************)
EXTENDS Integers, Sequences, FiniteSets, TLC

\* ------------------------------------------------------------------------
\* Bounds of the model
\* ------------------------------------------------------------------------
MaxWords == 2

MaxText == 2

\* ------------------------------------------------------------------------
\* Sequence helpers (Python semantics)
\* ------------------------------------------------------------------------
At(s, i) == s[i + 1]

Min2(x, y) == IF x < y THEN x ELSE y

\* s[lo:hi], which stops at the end of s
Slice(s, lo, hi) == SubSeq(s, lo + 1, Min2(hi, Len(s)))

Repeat(c, n) == [k \in 1..n |-> c]

RECURSIVE Concat(_)
Concat(ss) == IF ss = <<>> THEN <<>> ELSE Head(ss) \o Concat(Tail(ss))

Whitespace == {" ", "\n", "\t"}

\* str.split() with no argument: runs of whitespace separate the words, and
\* leading and trailing whitespace yields no empty word.
RECURSIVE SplitFrom(_, _, _)
SplitFrom(s, i, cur) ==
    IF i = Len(s)
    THEN IF cur = <<>> THEN <<>> ELSE <<cur>>
    ELSE IF At(s, i) \in Whitespace
         THEN (IF cur = <<>> THEN <<>> ELSE <<cur>>) \o SplitFrom(s, i + 1, <<>>)
         ELSE SplitFrom(s, i + 1, Append(cur, At(s, i)))

Split(s) == SplitFrom(s, 0, <<>>)

\* str.rstrip()
RECURSIVE RStrip(_)
RStrip(s) ==
    IF s # <<>> /\ s[Len(s)] \in Whitespace THEN RStrip(SubSeq(s, 1, Len(s) - 1)) ELSE s

\* ------------------------------------------------------------------------
\* difflib.SequenceMatcher as used by difflib.ndiff (line 100).  ndiff passes
\* linejunk=None, and its charjunk (blank and tab) never occurs inside a word
\* that str.split() produced, so no element is junk; the autojunk heuristic
\* drops "popular" elements of b from the index when len(b) >= 200.
\* ------------------------------------------------------------------------
AutoJunkLen == 200

Count(s, x) == Cardinality({k \in 1..Len(s) : s[k] = x})

Popular(b) ==
    IF Len(b) >= AutoJunkLen
    THEN {x \in {b[k] : k \in 1..Len(b)} : Count(b, x) > (Len(b) \div 100) + 1}
    ELSE {}

\* Length of the run of equal, indexed elements that ends at a[i], b[j].
RECURSIVE EndRun(_, _, _, _, _, _, _)
EndRun(a, b, i, j, alo, blo, pop) ==
    IF i < alo \/ j < blo THEN 0
    ELSE IF At(a, i) # At(b, j) \/ At(b, j) \in pop THEN 0
    ELSE 1 + EndRun(a, b, i - 1, j - 1, alo, blo, pop)

RECURSIVE ExtendBack(_, _, _, _, _)
ExtendBack(a, b, m, alo, blo) ==
    IF m.i > alo /\ m.j > blo /\ At(a, m.i - 1) = At(b, m.j - 1)
    THEN ExtendBack(a, b, [i |-> m.i - 1, j |-> m.j - 1, k |-> m.k + 1], alo, blo)
    ELSE m

RECURSIVE ExtendFwd(_, _, _, _, _)
ExtendFwd(a, b, m, ahi, bhi) ==
    IF m.i + m.k < ahi /\ m.j + m.k < bhi /\ At(a, m.i + m.k) = At(b, m.j + m.k)
    THEN ExtendFwd(a, b, [m EXCEPT !.k = m.k + 1], ahi, bhi)
    ELSE m

\* The runs of equal, indexed elements inside a[alo:ahi], b[blo:bhi], each
\* named by where it ends and how long it is.
RunEnds(a, b, alo, ahi, blo, bhi, pop) ==
    {r \in {[i |-> p[1], j |-> p[2], k |-> EndRun(a, b, p[1], p[2], alo, blo, pop)] :
                p \in (alo..(ahi - 1)) \X (blo..(bhi - 1))} : r.k > 0}

\* The scan keeps the first run it meets that is longer than every run
\* before it: i ascending, and for one i, j ascending.
RunStart(r) == [i |-> r.i - r.k + 1, j |-> r.j - r.k + 1, k |-> r.k]

LongestRun(alo, blo, runs) ==
    IF runs = {}
    THEN [i |-> alo, j |-> blo, k |-> 0]
    ELSE RunStart(CHOOSE r \in runs :
                     \A q \in runs :
                         \/ q.k < r.k
                         \/ q.k = r.k /\ q.i > r.i
                         \/ q.k = r.k /\ q.i = r.i /\ q.j >= r.j)

\* SequenceMatcher.find_longest_match: the longest block, of those the one
\* that starts earliest in a, of those the one that starts earliest in b;
\* then extended on both ends by equal elements.
find_longest_match(a, b, alo, ahi, blo, bhi) ==
    ExtendFwd(a, b,
              ExtendBack(a, b,
                         LongestRun(alo, blo, RunEnds(a, b, alo, ahi, blo, bhi, Popular(b))),
                         alo, blo),
              ahi, bhi)

\* SequenceMatcher.get_matching_blocks, before the sentinel is appended: the
\* longest match m, then the same to its left and to its right.
RECURSIVE RawBlocks(_, _, _, _, _, _)
RECURSIVE AroundMatch(_, _, _, _, _, _, _)
AroundMatch(a, b, alo, ahi, blo, bhi, m) ==
    IF m.k = 0 THEN <<>>
    ELSE (IF alo < m.i /\ blo < m.j
          THEN RawBlocks(a, b, alo, m.i, blo, m.j) ELSE <<>>)
         \o <<m>>
         \o (IF m.i + m.k < ahi /\ m.j + m.k < bhi
             THEN RawBlocks(a, b, m.i + m.k, ahi, m.j + m.k, bhi) ELSE <<>>)

RawBlocks(a, b, alo, ahi, blo, bhi) ==
    AroundMatch(a, b, alo, ahi, blo, bhi, find_longest_match(a, b, alo, ahi, blo, bhi))

\* The loop that merges adjacent blocks; cur is (i1, j1, k1).
RECURSIVE Collapse(_, _)
Collapse(blocks, cur) ==
    IF blocks = <<>>
    THEN IF cur.k > 0 THEN <<cur>> ELSE <<>>
    ELSE IF cur.i + cur.k = Head(blocks).i /\ cur.j + cur.k = Head(blocks).j
         THEN Collapse(Tail(blocks), [cur EXCEPT !.k = cur.k + Head(blocks).k])
         ELSE (IF cur.k > 0 THEN <<cur>> ELSE <<>>) \o Collapse(Tail(blocks), Head(blocks))

get_matching_blocks(a, b) ==
    Collapse(RawBlocks(a, b, 0, Len(a), 0, Len(b)), [i |-> 0, j |-> 0, k |-> 0])
        \o <<[i |-> Len(a), j |-> Len(b), k |-> 0]>>

\* SequenceMatcher.get_opcodes: what lies between (i, j) and the block m,
\* then the block.
OpTag(i, j, m) ==
    IF i < m.i /\ j < m.j THEN "replace"
    ELSE IF i < m.i THEN "delete"
    ELSE IF j < m.j THEN "insert"
    ELSE ""

RECURSIVE OpcodesFrom(_, _, _)
OpcodesFrom(blocks, i, j) ==
    IF blocks = <<>> THEN <<>>
    ELSE (IF OpTag(i, j, Head(blocks)) # ""
          THEN <<[tag |-> OpTag(i, j, Head(blocks)), i1 |-> i, i2 |-> Head(blocks).i,
                  j1 |-> j, j2 |-> Head(blocks).j]>>
          ELSE <<>>)
         \o (IF Head(blocks).k > 0
             THEN <<[tag |-> "equal",
                     i1 |-> Head(blocks).i, i2 |-> Head(blocks).i + Head(blocks).k,
                     j1 |-> Head(blocks).j, j2 |-> Head(blocks).j + Head(blocks).k]>>
             ELSE <<>>)
         \o OpcodesFrom(Tail(blocks), Head(blocks).i + Head(blocks).k,
                        Head(blocks).j + Head(blocks).k)

get_opcodes(a, b) == OpcodesFrom(get_matching_blocks(a, b), 0, 0)

\* Ratios are kept as fractions [num, den]; 2.0*M/T is compared by cross
\* multiplication.
RECURSIVE SumK(_)
SumK(blocks) == IF blocks = <<>> THEN 0 ELSE Head(blocks).k + SumK(Tail(blocks))

Frac(n, d) == [num |-> n, den |-> d]

FracGT(x, y) == x.num * y.den > y.num * x.den

FracLT(x, y) == x.num * y.den < y.num * x.den

calculate_ratio(matches, length) ==
    IF length > 0 THEN Frac(2 * matches, length) ELSE Frac(1, 1)

ratio(a, b) == calculate_ratio(SumK(get_matching_blocks(a, b)), Len(a) + Len(b))

\* The size of the multiset intersection of a and b, over the elements S.
RECURSIVE Common(_, _, _)
CommonOf(a, b, S, x) == Min2(Count(a, x), Count(b, x)) + Common(a, b, S \ {x})

Common(a, b, S) == IF S = {} THEN 0 ELSE CommonOf(a, b, S, CHOOSE y \in S : TRUE)

quick_ratio(a, b) ==
    calculate_ratio(Common(a, b, {a[k] : k \in 1..Len(a)}), Len(a) + Len(b))

real_quick_ratio(a, b) == calculate_ratio(Min2(Len(a), Len(b)), Len(a) + Len(b))

\* ------------------------------------------------------------------------
\* difflib.Differ as used by difflib.ndiff.  A delta line is the text the
\* generator yields: a two-character prefix, then the word (or, for a "? "
\* line, the intraline markers and a newline).
\* ------------------------------------------------------------------------
\* Differ._dump
RECURSIVE Dump(_, _, _, _)
Dump(tag, x, lo, hi) ==
    IF lo >= hi THEN <<>>
    ELSE <<(<<tag, " ">> \o At(x, lo))>> \o Dump(tag, x, lo + 1, hi)

\* Differ._plain_replace: the shorter block first.
plain_replace(a, alo, ahi, b, blo, bhi) ==
    IF bhi - blo < ahi - alo
    THEN Dump("+", b, blo, bhi) \o Dump("-", a, alo, ahi)
    ELSE Dump("-", a, alo, ahi) \o Dump("+", b, blo, bhi)

\* _keep_original_ws: zip(s, tag_s) stops at the shorter of the two.
keep_original_ws(s, tags) ==
    [k \in 1..Min2(Len(s), Len(tags)) |->
        IF tags[k] = " " /\ s[k] \in Whitespace THEN s[k] ELSE tags[k]]

\* Differ._qformat: at and bt are the marker lines after _keep_original_ws
\* and rstrip.
QLines(aline, bline, at, bt) ==
    <<(<<"-", " ">> \o aline)>>
        \o (IF at # <<>> THEN <<(<<"?", " ">> \o at \o <<"\n">>)>> ELSE <<>>)
        \o <<(<<"+", " ">> \o bline)>>
        \o (IF bt # <<>> THEN <<(<<"?", " ">> \o bt \o <<"\n">>)>> ELSE <<>>)

qformat(aline, bline, atags, btags) ==
    QLines(aline, bline, RStrip(keep_original_ws(aline, atags)),
           RStrip(keep_original_ws(bline, btags)))

\* The intraline markers _fancy_replace builds from the opcodes of the pair.
RECURSIVE ATags(_)
ATags(ops) ==
    IF ops = <<>> THEN <<>>
    ELSE (CASE Head(ops).tag = "replace" -> Repeat("^", Head(ops).i2 - Head(ops).i1)
            [] Head(ops).tag = "delete"  -> Repeat("-", Head(ops).i2 - Head(ops).i1)
            [] Head(ops).tag = "insert"  -> <<>>
            [] Head(ops).tag = "equal"   -> Repeat(" ", Head(ops).i2 - Head(ops).i1))
         \o ATags(Tail(ops))

RECURSIVE BTags(_)
BTags(ops) ==
    IF ops = <<>> THEN <<>>
    ELSE (CASE Head(ops).tag = "replace" -> Repeat("^", Head(ops).j2 - Head(ops).j1)
            [] Head(ops).tag = "delete"  -> <<>>
            [] Head(ops).tag = "insert"  -> Repeat("+", Head(ops).j2 - Head(ops).j1)
            [] Head(ops).tag = "equal"   -> Repeat(" ", Head(ops).j2 - Head(ops).j1))
         \o BTags(Tail(ops))

\* One step of the search loop of _fancy_replace, for the pair a[i], b[j].
\* st holds best_ratio, best_i, best_j, eqi, eqj (-1 for None).
FancyStep(ai, bj, i, j, st) ==
    IF ai = bj
    THEN IF st.eqi = -1 THEN [st EXCEPT !.eqi = i, !.eqj = j] ELSE st
    ELSE IF /\ FracGT(real_quick_ratio(ai, bj), st.best_ratio)
            /\ FracGT(quick_ratio(ai, bj), st.best_ratio)
            /\ FracGT(ratio(ai, bj), st.best_ratio)
         THEN [st EXCEPT !.best_ratio = ratio(ai, bj), !.best_i = i, !.best_j = j]
         ELSE st

\* The search loop: j over b[blo:bhi] outside, i over a[alo:ahi] inside; n
\* numbers the (j, i) pairs in that order.
RECURSIVE FancySearch(_, _, _, _, _, _, _, _)
FancySearch(a, alo, ahi, b, blo, bhi, n, st) ==
    IF n >= (bhi - blo) * (ahi - alo) THEN st
    ELSE FancySearch(a, alo, ahi, b, blo, bhi, n + 1,
                     FancyStep(At(a, alo + (n % (ahi - alo))),
                               At(b, blo + (n \div (ahi - alo))),
                               alo + (n % (ahi - alo)),
                               blo + (n \div (ahi - alo)), st))

\* The "-", "?", "+", "?" lines of a similar pair.
SynchPair(aelt, belt, ops) == qformat(aelt, belt, ATags(ops), BTags(ops))

\* Differ._fancy_replace after its search loop (st is the loop's result),
\* and Differ._fancy_helper.
RECURSIVE fancy_helper(_, _, _, _, _, _)
RECURSIVE FancyEmit(_, _, _, _, _, _, _)
FancyEmit(a, alo, ahi, b, blo, bhi, st) ==
    IF FracLT(st.best_ratio, Frac(75, 100))
    THEN IF st.eqi = -1
         THEN plain_replace(a, alo, ahi, b, blo, bhi)
         ELSE fancy_helper(a, alo, st.eqi, b, blo, st.eqj)
              \o <<(<<" ", " ">> \o At(a, st.eqi))>>
              \o fancy_helper(a, st.eqi + 1, ahi, b, st.eqj + 1, bhi)
    ELSE fancy_helper(a, alo, st.best_i, b, blo, st.best_j)
         \o SynchPair(At(a, st.best_i), At(b, st.best_j),
                      get_opcodes(At(a, st.best_i), At(b, st.best_j)))
         \o fancy_helper(a, st.best_i + 1, ahi, b, st.best_j + 1, bhi)

fancy_replace(a, alo, ahi, b, blo, bhi) ==
    FancyEmit(a, alo, ahi, b, blo, bhi,
              FancySearch(a, alo, ahi, b, blo, bhi, 0,
                          [best_ratio |-> Frac(74, 100), best_i |-> -1, best_j |-> -1,
                           eqi |-> -1, eqj |-> -1]))

fancy_helper(a, alo, ahi, b, blo, bhi) ==
    IF alo < ahi
    THEN IF blo < bhi
         THEN fancy_replace(a, alo, ahi, b, blo, bhi)
         ELSE Dump("-", a, alo, ahi)
    ELSE IF blo < bhi
         THEN Dump("+", b, blo, bhi)
         ELSE <<>>

\* Differ.compare, which is what difflib.ndiff(a, b) returns.
RECURSIVE CompareOps(_, _, _)
CompareOps(a, b, ops) ==
    IF ops = <<>> THEN <<>>
    ELSE (CASE Head(ops).tag = "replace" ->
                  fancy_replace(a, Head(ops).i1, Head(ops).i2, b, Head(ops).j1, Head(ops).j2)
            [] Head(ops).tag = "delete"  -> Dump("-", a, Head(ops).i1, Head(ops).i2)
            [] Head(ops).tag = "insert"  -> Dump("+", b, Head(ops).j1, Head(ops).j2)
            [] Head(ops).tag = "equal"   -> Dump(" ", a, Head(ops).i1, Head(ops).i2))
         \o CompareOps(a, b, Tail(ops))

ndiff(a, b) == CompareOps(a, b, get_opcodes(a, b))

\* ------------------------------------------------------------------------
\* highlight_differences (lines 98-109).  The result is the list html before
\* ''.join: one piece per delta line, with the style of the branch that
\* appended it and the text token[2:] it wraps.
\* ------------------------------------------------------------------------
\* Variant: the slice token[1:] keeps the blank after the prefix.
RenderTokenSliceOne(token) ==
    IF token[1] = "-" THEN [style |-> "removed", text |-> SubSeq(token, 2, Len(token))]
    ELSE IF token[1] = "+" THEN [style |-> "added", text |-> SubSeq(token, 2, Len(token))]
    ELSE [style |-> "plain", text |-> SubSeq(token, 2, Len(token))]

\* Variant: the two styles exchanged.
RenderTokenSwapped(token) ==
    IF token[1] = "-" THEN [style |-> "added", text |-> SubSeq(token, 3, Len(token))]
    ELSE IF token[1] = "+" THEN [style |-> "removed", text |-> SubSeq(token, 3, Len(token))]
    ELSE [style |-> "plain", text |-> SubSeq(token, 3, Len(token))]

RenderToken(token) ==
    IF token[1] = "-" THEN [style |-> "removed", text |-> SubSeq(token, 3, Len(token))]
    ELSE IF token[1] = "+" THEN [style |-> "added", text |-> SubSeq(token, 3, Len(token))]
    ELSE [style |-> "plain", text |-> SubSeq(token, 3, Len(token))]

RenderAll(diff) == [k \in 1..Len(diff) |-> RenderToken(diff[k])]

highlight_differences(orig, tail) == RenderAll(ndiff(Split(orig), Split(tail)))

\* ------------------------------------------------------------------------
\* build_prompt_for_openai (lines 68-80).  A system instruction is the
\* sequence of its sentences; a user prompt is the f-string's text, each
\* literal part of the template one element and each interpolated text its
\* characters.  The function has no raise statement: every path returns.
\* ------------------------------------------------------------------------
CoverSystem ==
    << "You are a professional career coach.",
       "Write a concise, persuasive cover letter that highlights why the candidate is a good fit for the job.",
       "Use the resume and job description as context." >>

LightSystem ==
    << "You are an expert resume writer.",
       "Adjust only lightly: match keywords from the JD and make minimal wording updates.",
       "Do not rewrite entire bullets." >>

DeepSystem ==
    << "You are an expert resume writer.",
       "Rewrite bullets for strong alignment to the JD while preserving facts." >>

CoverPrompt(resume_text, jd_text) ==
    <<"Job Description:\n">> \o jd_text \o <<"\n\nResume:\n">> \o resume_text
        \o <<"\n\nWrite a professional cover letter (max 300 words).">>

ResumePrompt(resume_text, jd_text) ==
    <<"Job Description:\n">> \o jd_text \o <<"\n\nOriginal Resume:\n">> \o resume_text
        \o <<"\n\nReturn the tailored resume text.">>

\* Variant: empty texts rejected before anything is built.
build_prompt_validating(resume_text, jd_text, level, cover_letter) ==
    IF resume_text = <<>> \/ jd_text = <<>>
    THEN [kind |-> "raise", error |-> "InvalidRequest"]
    ELSE IF cover_letter
         THEN [kind |-> "return", system |-> CoverSystem,
               prompt |-> CoverPrompt(resume_text, jd_text)]
         ELSE [kind |-> "return",
               system |-> IF level = "light" THEN LightSystem ELSE DeepSystem,
               prompt |-> ResumePrompt(resume_text, jd_text)]

\* Variant: the resume cut to its first character.
build_prompt_truncating(resume_text, jd_text, level, cover_letter) ==
    IF cover_letter
    THEN [kind |-> "return", system |-> CoverSystem,
          prompt |-> CoverPrompt(Slice(resume_text, 0, 1), jd_text)]
    ELSE [kind |-> "return",
          system |-> IF level = "light" THEN LightSystem ELSE DeepSystem,
          prompt |-> ResumePrompt(Slice(resume_text, 0, 1), jd_text)]

\* Variant: the level decided before the document kind.
build_prompt_level_first(resume_text, jd_text, level, cover_letter) ==
    IF level = "light"
    THEN [kind |-> "return", system |-> LightSystem,
          prompt |-> ResumePrompt(resume_text, jd_text)]
    ELSE IF cover_letter
         THEN [kind |-> "return", system |-> CoverSystem,
               prompt |-> CoverPrompt(resume_text, jd_text)]
         ELSE [kind |-> "return", system |-> DeepSystem,
               prompt |-> ResumePrompt(resume_text, jd_text)]

build_prompt_for_openai(resume_text, jd_text, level, cover_letter) ==
    IF cover_letter
    THEN [kind |-> "return", system |-> CoverSystem,
          prompt |-> CoverPrompt(resume_text, jd_text)]
    ELSE [kind |-> "return",
          system |-> IF level = "light" THEN LightSystem ELSE DeepSystem,
          prompt |-> ResumePrompt(resume_text, jd_text)]

\* ------------------------------------------------------------------------
\* State
\* ------------------------------------------------------------------------
VARIABLES
    original,   \* highlight_differences: the argument original
    tailored,   \* highlight_differences: the argument tailored
    html,       \* highlight_differences: the list html
    hl_pc,      \* "call" before highlight_differences ran, "return" after
    bp_args,    \* build_prompt_for_openai: its four arguments
    bp_result,  \* build_prompt_for_openai: what the call produced
    bp_pc,      \* "call" before build_prompt_for_openai ran, "return" after
    mods,       \* which optional imports succeeded (lines 13-21, 28-31)
    secrets_key,\* st.secrets["OPENAI_API_KEY"], None when not in st.secrets
    env_key,    \* os.environ.get('OPENAI_API_KEY')
    ui,         \* the widgets: resume_file, jd_file, level, include_cover, button
    pc,         \* where the script run is
    cur,        \* the upload extract_text_from_upload is working on
    doc,        \* the document the prompt and the chat call are for
    loc,        \* the script's and the helpers' local variables
    shown,      \* what the run has displayed, in order
    steps,      \* the pipeline steps the run has started, in order
    requests,   \* openai.ChatCompletion.create calls issued, per document
    tmpfiles,   \* the uploads whose temporary .docx file exists on disk
    error       \* the exception that ended the run, "none" if none

diffVars == <<original, tailored, html, hl_pc>>

promptVars == <<bp_args, bp_result, bp_pc>>

envVars == <<mods, secrets_key, ui>>

runVars == <<mods, secrets_key, env_key, ui, pc, cur, doc, loc, shown, steps,
             requests, tmpfiles, error>>

vars == <<diffVars, promptVars, runVars>>

NoResult == [kind |-> "none"]

IdleDiff ==
    /\ original = <<>>
    /\ tailored = <<>>
    /\ html = <<>>
    /\ hl_pc = "idle"

None == "<None>"

NoLocals ==
    [resume_text |-> <<>>, jd_text |-> <<>>, text |-> <<>>, raised |-> "none",
     system_msg |-> <<>>, prompt |-> <<>>, tailored_text |-> <<>>,
     cover_text |-> <<>>, html_diff |-> <<>>]

IdleRun ==
    /\ mods = [pdfplumber |-> TRUE, docx2txt |-> TRUE, openai |-> TRUE]
    /\ secrets_key = None
    /\ env_key = None
    /\ ui = [resume_file |-> None, jd_file |-> None, level |-> "Light (keyword adjust)",
             include_cover |-> FALSE, button |-> FALSE]
    /\ pc = "idle"
    /\ cur = "resume"
    /\ doc = "resume"
    /\ loc = NoLocals
    /\ shown = <<>>
    /\ steps = <<>>
    /\ requests = [resume |-> 0, cover |-> 0]
    /\ tmpfiles = {}
    /\ error = "none"

IdlePrompt ==
    /\ bp_args = [resume_text |-> <<>>, jd_text |-> <<>>, level |-> "light",
                  cover_letter |-> FALSE]
    /\ bp_result = NoResult
    /\ bp_pc = "idle"

\* ------------------------------------------------------------------------
\* Inputs of the diff: texts of at most MaxWords words, the words joined by
\* one blank, and the texts of at most one word with whitespace around it.
\* ------------------------------------------------------------------------
Words == { <<"a">>, <<"a", "b">>, <<"a", "b", "b">>,
           <<"a", "b", "a", "a">>, <<"a", "c", "a", "a">> }

WordSeqs == UNION {[1..n -> Words] : n \in 0..MaxWords}

RECURSIVE Join(_, _)
Join(ws, sep) ==
    IF ws = <<>> THEN <<>>
    ELSE IF Len(ws) = 1 THEN ws[1]
    ELSE ws[1] \o <<sep>> \o Join(Tail(ws), sep)

Texts ==
    {Join(ws, " ") : ws \in WordSeqs}
        \cup {<<"\n">> \o Join(ws, " ") \o <<" ", "\t">> : ws \in {v \in WordSeqs : Len(v) <= 1}}

InitDiff ==
    /\ original \in Texts
    /\ tailored \in Texts
    /\ html = <<>>
    /\ hl_pc = "call"
    /\ IdlePrompt
    /\ IdleRun

Highlight ==
    /\ hl_pc = "call"
    /\ html' = highlight_differences(original, tailored)
    /\ hl_pc' = "return"
    /\ UNCHANGED <<original, tailored, promptVars, runVars>>

NextDiff == Highlight

SpecDiff == InitDiff /\ [][NextDiff]_vars

\* ------------------------------------------------------------------------
\* Inputs of the prompt builder: texts of at most MaxText characters, the
\* two levels of the radio button and one value that is neither.
\* ------------------------------------------------------------------------
Chars == {"x", "y"}

PromptTexts == UNION {[1..n -> Chars] : n \in 0..MaxText}

Levels == {"light", "deep", "other"}

InitPrompt ==
    /\ bp_args \in [resume_text : PromptTexts, jd_text : PromptTexts,
                    level : Levels, cover_letter : BOOLEAN]
    /\ bp_result = NoResult
    /\ bp_pc = "call"
    /\ IdleDiff
    /\ IdleRun

BuildPrompt ==
    /\ bp_pc = "call"
    /\ bp_result' = build_prompt_for_openai(bp_args.resume_text, bp_args.jd_text,
                                            bp_args.level, bp_args.cover_letter)
    /\ bp_pc' = "return"
    /\ UNCHANGED <<bp_args, diffVars, runVars>>

NextPrompt == BuildPrompt

SpecPrompt == InitPrompt /\ [][NextPrompt]_vars

\* ------------------------------------------------------------------------
\* One run of the script (Streamlit runs app.py top to bottom for a page
\* load or a widget interaction).  Init is the run's start: the imports
\* have succeeded or not, the secret store and the environment hold a key
\* or not, and the widgets carry the user's choices.
\* ------------------------------------------------------------------------
Keys == {None, "", "sk-test"}

FileKinds == {"pdf", "docx", "txt"}

RadioLevels == {"Light (keyword adjust)", "Deep (rewrite bullets)"}

\* What an extraction can produce; "" is what `or ""` gives for a document
\* without text.
ExtractTexts == { <<>>, <<"a", "b">>, <<"a", "b", " ", "a">> }

\* response['choices'][0]['message']['content'], before .strip()
RawReplies == { <<" ", "a", "b", "b", "\n">>, <<"a", "b", " ", "a">> }

ChatErrors == {"AuthenticationError", "RateLimited", "UpstreamError"}

RECURSIVE LStrip(_)
LStrip(s) == IF s # <<>> /\ s[1] \in Whitespace THEN LStrip(Tail(s)) ELSE s

Strip(s) == LStrip(RStrip(s))

\* Variant: `key is None`, which lets an empty key through.
KeyIsNone(key) == key = None

\* `not key` (line 86)
KeyMissing(key) == key = None \/ key = ""

\* lvl (line 146)
Lvl == IF ui.level = "Light (keyword adjust)" THEN "light" ELSE "deep"

InitRun ==
    /\ mods \in [pdfplumber : BOOLEAN, docx2txt : BOOLEAN, openai : BOOLEAN]
    /\ secrets_key \in Keys
    /\ env_key \in Keys
    /\ ui \in [resume_file : FileKinds \cup {None}, jd_file : FileKinds \cup {None},
               level : RadioLevels, include_cover : BOOLEAN, button : BOOLEAN]
    /\ pc = "startup"
    /\ cur = "resume"
    /\ doc = "resume"
    /\ loc = NoLocals
    /\ shown = <<>>
    /\ steps = <<>>
    /\ requests = [resume |-> 0, cover |-> 0]
    /\ tmpfiles = {}
    /\ error = "none"
    /\ IdleDiff
    /\ IdlePrompt

\* An exception nobody catches ends the run.
Raise(err) ==
    /\ pc' = "failed"
    /\ error' = err

\* Lines 9-10: the secret, when there is one, replaces the environment's key.
Startup ==
    /\ pc = "startup"
    /\ env_key' = IF secrets_key # None THEN secrets_key ELSE env_key
    /\ pc' = "button"
    /\ UNCHANGED <<diffVars, promptVars, envVars, cur, doc, loc, shown, steps, requests, tmpfiles, error>>

\* Line 138, button not pressed: the script goes on to line 181.
ButtonNotPressed ==
    /\ pc = "button"
    /\ ~ui.button
    /\ pc' = "end"
    /\ UNCHANGED <<diffVars, promptVars, envVars, env_key, cur, doc, loc, shown, steps, requests, tmpfiles, error>>

\* Lines 139-140
ButtonMissingUpload ==
    /\ pc = "button"
    /\ ui.button
    /\ ui.resume_file = None \/ ui.jd_file = None
    /\ shown' = Append(shown, "error: upload both")
    /\ pc' = "end"
    /\ UNCHANGED <<diffVars, promptVars, envVars, env_key, cur, doc, loc, steps, requests, tmpfiles, error>>

\* Lines 141-143: the call extract_text_from_upload(resume_file)
ButtonStart ==
    /\ pc = "button"
    /\ ui.button
    /\ ui.resume_file # None /\ ui.jd_file # None
    /\ cur' = "resume"
    /\ steps' = Append(steps, "extract_resume")
    /\ pc' = "extract"
    /\ UNCHANGED <<diffVars, promptVars, envVars, env_key, doc, loc, shown, requests, tmpfiles, error>>

CurFile == IF cur = "resume" THEN ui.resume_file ELSE ui.jd_file

\* extract_text_from_upload returns text: line 143 stores it and goes on to
\* line 144, line 144 stores it and goes on to line 146.
ExtractReturn(text) ==
    IF cur = "resume"
    THEN /\ loc' = [loc EXCEPT !.resume_text = text, !.text = <<>>, !.raised = "none"]
         /\ cur' = "jd"
         /\ steps' = Append(steps, "extract_jd")
         /\ pc' = "extract"
         /\ UNCHANGED <<doc, error>>
    ELSE /\ loc' = [loc EXCEPT !.jd_text = text, !.text = <<>>, !.raised = "none"]
         /\ doc' = "resume"
         /\ pc' = "build"
         /\ UNCHANGED <<cur, steps, error>>

\* extract_text_from_pdf (lines 34-41)
ExtractPdfNoModule ==
    /\ pc = "extract"
    /\ CurFile = "pdf"
    /\ ~mods.pdfplumber
    /\ Raise("RuntimeError: pdfplumber required")
    /\ UNCHANGED <<diffVars, promptVars, envVars, env_key, cur, doc, loc, shown, steps, requests, tmpfiles>>

ExtractPdfFail ==
    /\ pc = "extract"
    /\ CurFile = "pdf"
    /\ mods.pdfplumber
    /\ Raise("ExtractionFailure")
    /\ UNCHANGED <<diffVars, promptVars, envVars, env_key, cur, doc, loc, shown, steps, requests, tmpfiles>>

ExtractPdf ==
    /\ pc = "extract"
    /\ CurFile = "pdf"
    /\ mods.pdfplumber
    /\ \E text \in ExtractTexts : ExtractReturn(text)
    /\ UNCHANGED <<diffVars, promptVars, envVars, env_key, shown, requests, tmpfiles>>

\* Line 66: decode with errors='ignore' cannot fail.
ExtractTxt ==
    /\ pc = "extract"
    /\ CurFile = "txt"
    /\ \E text \in ExtractTexts : ExtractReturn(text)
    /\ UNCHANGED <<diffVars, promptVars, envVars, env_key, shown, requests, tmpfiles>>

\* extract_text_from_docx (lines 43-57), statement by statement.
DocxNoModule ==
    /\ pc = "extract"
    /\ CurFile = "docx"
    /\ ~mods.docx2txt
    /\ Raise("RuntimeError: docx2txt required")
    /\ UNCHANGED <<diffVars, promptVars, envVars, env_key, cur, doc, loc, shown, steps, requests, tmpfiles>>

\* Line 46: NamedTemporaryFile(delete=False) creates the file.
DocxTmp ==
    /\ pc = "extract"
    /\ CurFile = "docx"
    /\ mods.docx2txt
    /\ tmpfiles' = tmpfiles \cup {cur}
    /\ pc' = "docx_write"
    /\ UNCHANGED <<diffVars, promptVars, envVars, env_key, cur, doc, loc, shown, steps, requests, error>>

\* Lines 47-49: write, flush, close, outside the try.
DocxWrite ==
    /\ pc = "docx_write"
    /\ pc' = "docx_process"
    /\ UNCHANGED <<diffVars, promptVars, envVars, env_key, cur, doc, loc, shown, steps, requests, tmpfiles, error>>

DocxWriteFail ==
    /\ pc = "docx_write"
    /\ Raise("OSError")
    /\ UNCHANGED <<diffVars, promptVars, envVars, env_key, cur, doc, loc, shown, steps, requests, tmpfiles>>

\* Line 51, inside the try.
DocxProcess ==
    /\ pc = "docx_process"
    /\ \E text \in ExtractTexts : loc' = [loc EXCEPT !.text = text]
    /\ pc' = "docx_finally"
    /\ UNCHANGED <<diffVars, promptVars, envVars, env_key, cur, doc, shown, steps, requests, tmpfiles, error>>

DocxProcessFail ==
    /\ pc = "docx_process"
    /\ loc' = [loc EXCEPT !.raised = "ExtractionFailure"]
    /\ pc' = "docx_finally"
    /\ UNCHANGED <<diffVars, promptVars, envVars, env_key, cur, doc, shown, steps, requests, tmpfiles, error>>

\* Lines 52-56: os.unlink, any exception of it swallowed.
DocxUnlink ==
    /\ pc = "docx_finally"
    /\ tmpfiles' = tmpfiles \ {cur}
    /\ pc' = "docx_exit"
    /\ UNCHANGED <<diffVars, promptVars, envVars, env_key, cur, doc, loc, shown, steps, requests, error>>

DocxUnlinkFail ==
    /\ pc = "docx_finally"
    /\ pc' = "docx_exit"
    /\ UNCHANGED <<diffVars, promptVars, envVars, env_key, cur, doc, loc, shown, steps, requests, tmpfiles, error>>

\* Line 57, or the exception of line 51 leaving the finally block.
DocxReturn ==
    /\ pc = "docx_exit"
    /\ loc.raised = "none"
    /\ ExtractReturn(loc.text)
    /\ UNCHANGED <<diffVars, promptVars, envVars, env_key, shown, requests, tmpfiles>>

DocxReraise ==
    /\ pc = "docx_exit"
    /\ loc.raised # "none"
    /\ Raise(loc.raised)
    /\ UNCHANGED <<diffVars, promptVars, envVars, env_key, cur, doc, loc, shown, steps, requests, tmpfiles>>

\* Variant: the success message shown before the model is called.
BuildShowsSuccess ==
    /\ pc = "build"
    /\ LET r == build_prompt_for_openai(loc.resume_text, loc.jd_text, Lvl, doc = "cover")
       IN  loc' = [loc EXCEPT !.system_msg = r.system, !.prompt = r.prompt]
    /\ steps' = Append(steps, IF doc = "cover" THEN "build_cover" ELSE "build_resume")
    /\ shown' = IF doc = "cover" THEN shown ELSE Append(shown, "success")
    /\ pc' = "call_pkg"
    /\ UNCHANGED <<diffVars, promptVars, envVars, env_key, cur, doc, requests, tmpfiles, error>>

\* Lines 146-147 for the resume, line 175 for the cover letter.
Build ==
    /\ pc = "build"
    /\ LET r == build_prompt_for_openai(loc.resume_text, loc.jd_text, Lvl, doc = "cover")
       IN  loc' = [loc EXCEPT !.system_msg = r.system, !.prompt = r.prompt]
    /\ steps' = Append(steps, IF doc = "cover" THEN "build_cover" ELSE "build_resume")
    /\ pc' = "call_pkg"
    /\ UNCHANGED <<diffVars, promptVars, envVars, env_key, cur, doc, shown, requests, tmpfiles, error>>

\* call_openai_chat (lines 82-96), statement by statement.
CallNoModule ==
    /\ pc = "call_pkg"
    /\ ~mods.openai
    /\ steps' = Append(steps, IF doc = "cover" THEN "call_cover" ELSE "call_resume")
    /\ Raise("RuntimeError: openai package missing")
    /\ UNCHANGED <<diffVars, promptVars, envVars, env_key, cur, doc, loc, shown, requests, tmpfiles>>

CallModule ==
    /\ pc = "call_pkg"
    /\ mods.openai
    /\ steps' = Append(steps, IF doc = "cover" THEN "call_cover" ELSE "call_resume")
    /\ pc' = "call_key"
    /\ UNCHANGED <<diffVars, promptVars, envVars, env_key, cur, doc, loc, shown, requests, tmpfiles, error>>

CallNoKey ==
    /\ pc = "call_key"
    /\ KeyMissing(env_key)
    /\ Raise("RuntimeError: set OPENAI_API_KEY")
    /\ UNCHANGED <<diffVars, promptVars, envVars, env_key, cur, doc, loc, shown, steps, requests, tmpfiles>>

CallKey ==
    /\ pc = "call_key"
    /\ ~KeyMissing(env_key)
    /\ pc' = "call_request"
    /\ UNCHANGED <<diffVars, promptVars, envVars, env_key, cur, doc, loc, shown, steps, requests, tmpfiles, error>>

\* Line 90: the request goes out.
CallRequest ==
    /\ pc = "call_request"
    /\ requests' = [requests EXCEPT ![doc] = @ + 1]
    /\ pc' = "call_response"
    /\ UNCHANGED <<diffVars, promptVars, envVars, env_key, cur, doc, loc, shown, steps, tmpfiles, error>>

\* Variant: a failed request is sent again.
CallFailRetry ==
    /\ pc = "call_response"
    /\ pc' = "call_request"
    /\ UNCHANGED <<diffVars, promptVars, envVars, env_key, cur, doc, loc, shown, steps,
                   requests, tmpfiles, error>>

CallFail ==
    /\ pc = "call_response"
    /\ \E err \in ChatErrors : Raise(err)
    /\ UNCHANGED <<diffVars, promptVars, envVars, env_key, cur, doc, loc, shown, steps, requests, tmpfiles>>

\* Line 96, then line 148 or line 176.
CallReturn ==
    /\ pc = "call_response"
    /\ \E raw \in RawReplies :
          loc' = IF doc = "cover"
                 THEN [loc EXCEPT !.cover_text = Strip(raw)]
                 ELSE [loc EXCEPT !.tailored_text = Strip(raw)]
    /\ pc' = IF doc = "cover" THEN "show_cover" ELSE "show_result"
    /\ UNCHANGED <<diffVars, promptVars, envVars, env_key, cur, doc, shown, steps, requests, tmpfiles, error>>

\* Lines 150-160
ShowResult ==
    /\ pc = "show_result"
    /\ shown' = shown \o <<"success", "original", "tailored">>
    /\ pc' = "diff"
    /\ UNCHANGED <<diffVars, promptVars, envVars, env_key, cur, doc, loc, steps, requests, tmpfiles, error>>

\* Lines 163-165
Diff ==
    /\ pc = "diff"
    /\ steps' = Append(steps, "diff")
    /\ loc' = [loc EXCEPT !.html_diff = highlight_differences(loc.resume_text, loc.tailored_text)]
    /\ shown' = Append(shown, "diff")
    /\ pc' = "render"
    /\ UNCHANGED <<diffVars, promptVars, envVars, env_key, cur, doc, requests, tmpfiles, error>>

\* make_pretty_pdf (lines 111-122) at line 168 or 178, and the download
\* button of the next line.
Render ==
    /\ pc = "render"
    /\ steps' = Append(steps, IF doc = "cover" THEN "render_cover" ELSE "render_resume")
    /\ shown' = Append(shown, IF doc = "cover" THEN "download_cover" ELSE "download_resume")
    /\ pc' = IF doc = "cover" THEN "end" ELSE "cover_gate"
    /\ UNCHANGED <<diffVars, promptVars, envVars, env_key, cur, doc, loc, requests, tmpfiles, error>>

RenderFail ==
    /\ pc = "render"
    /\ steps' = Append(steps, IF doc = "cover" THEN "render_cover" ELSE "render_resume")
    /\ Raise("RenderFailure")
    /\ UNCHANGED <<diffVars, promptVars, envVars, env_key, cur, doc, loc, shown, requests, tmpfiles>>

\* Lines 172-174
CoverWanted ==
    /\ pc = "cover_gate"
    /\ ui.include_cover
    /\ shown' = Append(shown, "cover_header")
    /\ doc' = "cover"
    /\ pc' = "build"
    /\ UNCHANGED <<diffVars, promptVars, envVars, env_key, cur, loc, steps, requests, tmpfiles, error>>

CoverNotWanted ==
    /\ pc = "cover_gate"
    /\ ~ui.include_cover
    /\ pc' = "end"
    /\ UNCHANGED <<diffVars, promptVars, envVars, env_key, cur, doc, loc, shown, steps, requests, tmpfiles, error>>

\* Line 177
ShowCover ==
    /\ pc = "show_cover"
    /\ shown' = Append(shown, "cover_letter")
    /\ pc' = "render"
    /\ UNCHANGED <<diffVars, promptVars, envVars, env_key, cur, doc, loc, steps, requests, tmpfiles, error>>

\* Lines 181-182
Notes ==
    /\ pc = "end"
    /\ shown' = Append(shown, "notes")
    /\ pc' = "done"
    /\ UNCHANGED <<diffVars, promptVars, envVars, env_key, cur, doc, loc, steps, requests, tmpfiles, error>>

Next ==
    \/ Startup
    \/ ButtonNotPressed
    \/ ButtonMissingUpload
    \/ ButtonStart
    \/ ExtractPdfNoModule
    \/ ExtractPdfFail
    \/ ExtractPdf
    \/ ExtractTxt
    \/ DocxNoModule
    \/ DocxTmp
    \/ DocxWrite
    \/ DocxWriteFail
    \/ DocxProcess
    \/ DocxProcessFail
    \/ DocxUnlink
    \/ DocxUnlinkFail
    \/ DocxReturn
    \/ DocxReraise
    \/ Build
    \/ CallNoModule
    \/ CallModule
    \/ CallNoKey
    \/ CallKey
    \/ CallRequest
    \/ CallFail
    \/ CallReturn
    \/ ShowResult
    \/ Diff
    \/ Render
    \/ RenderFail
    \/ CoverWanted
    \/ CoverNotWanted
    \/ ShowCover
    \/ Notes

Spec == InitRun /\ [][Next]_vars

\* ------------------------------------------------------------------------
\* Properties
\* ------------------------------------------------------------------------
\* The texts of the pieces of h whose style is in styles, in order.
TextsOf(h, styles) ==
    LET sel == SelectSeq(h, LAMBDA piece : piece.style \in styles)
    IN  [k \in 1..Len(sel) |-> sel[k].text]

StylesOf(h) == {h[k].style : k \in 1..Len(h)}

\* t is a contiguous part of s.
Contains(s, t) ==
    \E off \in 0..(Len(s) - Len(t)) : SubSeq(s, off + 1, off + Len(t)) = t

Last(s) == s[Len(s)]

IsPrefix(s, t) == Len(s) <= Len(t) /\ SubSeq(t, 1, Len(s)) = s

\* C1: once highlight_differences(A, B) has returned, the texts of the
\* pieces rendered unchanged or removed are, in order, the words of A, and
\* the texts of the pieces rendered unchanged or added are, in order, the
\* words of B; nothing else is in the output.
C1_Reconstructs ==
    hl_pc = "return" =>
        /\ TextsOf(html, {"plain", "removed"}) = Split(original)
        /\ TextsOf(html, {"plain", "added"}) = Split(tailored)

\* C2, as the specification states it: with an empty resume_text or an empty
\* jd_text, build_prompt_for_openai fails with InvalidRequest and returns no
\* pair.
C2_InvalidRequest ==
    (bp_pc = "return" /\ (bp_args.resume_text = <<>> \/ bp_args.jd_text = <<>>)) =>
        (bp_result.kind = "raise" /\ bp_result.error = "InvalidRequest")

\* C2, amended: with an empty resume_text or an empty jd_text,
\* build_prompt_for_openai returns a (system, prompt) pair as for any other
\* input; the prompt is the template around the texts given, its three
\* literal parts included.
C2_EmptyTextReturns ==
    (bp_pc = "return" /\ (bp_args.resume_text = <<>> \/ bp_args.jd_text = <<>>)) =>
        /\ bp_result.kind = "return"
        /\ bp_result.system # <<>>
        /\ Len(bp_result.prompt) = 3 + Len(bp_args.resume_text) + Len(bp_args.jd_text)
        /\ bp_result.prompt[1] = "Job Description:\n"

C2_Witness ==
    /\ bp_pc = "return"
    /\ bp_args.resume_text = <<>>
    /\ bp_args.jd_text # <<>>
    /\ bp_result.kind = "return"

\* The caps a caller could ask for: each lets the template alone through.
CallerCaps == {Len(ResumePrompt(<<>>, <<>>)) + n : n \in 0..MaxText}

\* C6, as the specification states it: a returned prompt holds resume_text
\* and jd_text untruncated, and for no length cap is a prompt longer than
\* the cap returned: the builder fails with PromptTooLong instead.
C6_VerbatimOrTooLong ==
    bp_pc = "return" =>
        /\ bp_result.kind = "return" =>
              /\ Contains(bp_result.prompt, bp_args.resume_text)
              /\ Contains(bp_result.prompt, bp_args.jd_text)
        /\ \A cap \in CallerCaps :
              \/ bp_result.kind = "return" /\ Len(bp_result.prompt) <= cap
              \/ bp_result.kind = "raise" /\ bp_result.error = "PromptTooLong"

\* C6, amended: build_prompt_for_openai returns for every input, and the
\* returned prompt holds resume_text and jd_text each as a contiguous,
\* untruncated part; there is no length cap and no PromptTooLong failure.
C6_Verbatim ==
    bp_pc = "return" =>
        /\ bp_result.kind = "return"
        /\ Contains(bp_result.prompt, bp_args.resume_text)
        /\ Contains(bp_result.prompt, bp_args.jd_text)

C6_Witness ==
    /\ bp_pc = "return"
    /\ Len(bp_args.resume_text) = MaxText
    /\ Len(bp_args.jd_text) = MaxText
    /\ bp_args.resume_text # bp_args.jd_text
    /\ \A cap \in CallerCaps : Len(bp_result.prompt) > cap

\* C7: with cover_letter true, whatever the level, the system instruction
\* is the one cover-letter instruction, which holds the cover-letter
\* sentence, and the prompt holds both texts and ends by asking for a cover
\* letter of at most 300 words.
C7_CoverLetter ==
    (bp_pc = "return" /\ bp_args.cover_letter) =>
        /\ bp_result.kind = "return"
        /\ bp_result.system = CoverSystem
        /\ \E k \in 1..Len(bp_result.system) :
              bp_result.system[k] =
                 "Write a concise, persuasive cover letter that highlights why the candidate is a good fit for the job."
        /\ Last(bp_result.prompt) = "\n\nWrite a professional cover letter (max 300 words)."
        /\ Contains(bp_result.prompt, bp_args.resume_text)
        /\ Contains(bp_result.prompt, bp_args.jd_text)

C7_Witness ==
    /\ bp_pc = "return"
    /\ bp_args.cover_letter
    /\ bp_args.level = "other"
    /\ bp_result.kind = "return"

\* C8: highlight_differences(A, A) renders unchanged pieces only, and their
\* texts are, in order, the words of A.
C8_SameText ==
    (hl_pc = "return" /\ original = tailored) =>
        /\ StylesOf(html) \subseteq {"plain"}
        /\ TextsOf(html, {"plain"}) = Split(original)

C8_Witness ==
    /\ hl_pc = "return"
    /\ original = tailored
    /\ Len(html) >= 2

\* C9: highlight_differences("", B) renders added pieces only, the words of
\* B in order; highlight_differences(A, "") renders removed pieces only, the
\* words of A in order; with both empty the output is empty.
C9_OneSideEmpty ==
    hl_pc = "return" =>
        /\ original = <<>> =>
              /\ StylesOf(html) \subseteq {"added"}
              /\ TextsOf(html, {"added"}) = Split(tailored)
        /\ tailored = <<>> =>
              /\ StylesOf(html) \subseteq {"removed"}
              /\ TextsOf(html, {"removed"}) = Split(original)
        /\ (original = <<>> /\ tailored = <<>>) => html = <<>>

C9_Witness ==
    /\ hl_pc = "return"
    /\ original = <<>>
    /\ Len(html) >= 2

\* The run is past the secret loading and the environment holds no key.
NoKeyConfigured == pc # "startup" /\ (env_key = None \/ env_key = "")

\* A call of call_openai_chat has been entered and has ended.
CallEnded ==
    /\ \E k \in 1..Len(steps) : steps[k] \in {"call_resume", "call_cover"}
    /\ pc \notin {"call_key", "call_request", "call_response"}

NoRequests == requests = [resume |-> 0, cover |-> 0]

\* C3, as the specification states it: with no key configured, every call of
\* call_openai_chat ends in the missing-credential failure, and no request
\* was issued.
C3_MissingCredential ==
    (NoKeyConfigured /\ CallEnded) =>
        /\ pc = "failed"
        /\ error = "RuntimeError: set OPENAI_API_KEY"
        /\ NoRequests

\* C3, amended: with no key configured, every call of call_openai_chat fails
\* and no request is issued: with the missing-credential failure when the
\* openai package was imported, with the package-missing failure, which is
\* checked first, when it was not.  No request is ever issued without a key.
C3_FailsBeforeRequest ==
    /\ (NoKeyConfigured /\ CallEnded) =>
          /\ pc = "failed"
          /\ error = IF mods.openai THEN "RuntimeError: set OPENAI_API_KEY"
                     ELSE "RuntimeError: openai package missing"
          /\ NoRequests
    /\ ~NoRequests => (mods.openai /\ env_key \notin {None, ""})
    /\ pc \in {"call_request", "call_response"} => (mods.openai /\ env_key \notin {None, ""})

C3_Witness ==
    /\ NoKeyConfigured
    /\ CallEnded
    /\ secrets_key = ""
    /\ error = "RuntimeError: set OPENAI_API_KEY"

\* C4, as the specification states it: a run in which a step failed has
\* shown nothing.
C4_NothingShownOnFailure == pc = "failed" => shown = <<>>

\* What the page holds when the step named last fails.
ShownBefore(step) ==
    CASE step \in {"extract_resume", "extract_jd", "call_resume"} -> <<>>
      [] step = "render_resume" -> <<"success", "original", "tailored", "diff">>
      [] step = "call_cover" ->
            <<"success", "original", "tailored", "diff", "download_resume", "cover_header">>
      [] step = "render_cover" ->
            <<"success", "original", "tailored", "diff", "download_resume", "cover_header",
              "cover_letter">>

\* C4, amended: a run that fails in an extraction or in the resume call has
\* shown nothing; output is displayed step by step, so a run that fails
\* later keeps what the earlier steps displayed: the success message, both
\* texts and the diff when the resume PDF render fails, also the resume
\* download button and the cover-letter heading when the cover-letter call
\* fails, also the cover letter when its render fails.
C4_ShownUpToFailure ==
    pc = "failed" =>
        /\ steps # <<>>
        /\ Last(steps) \in {"extract_resume", "extract_jd", "call_resume", "render_resume",
                            "call_cover", "render_cover"}
        /\ shown = ShownBefore(Last(steps))

C4_Witness ==
    /\ pc = "failed"
    /\ Last(steps) = "render_resume"
    /\ error = "RenderFailure"
    /\ shown # <<>>

\* C5: a temporary file of extract_text_from_docx exists only while the call
\* that created it is between its creation and the end of its finally
\* block; none is left when the call has returned or raised.
C5_TempFileRemoved ==
    \A f \in tmpfiles : cur = f /\ pc \in {"docx_write", "docx_process", "docx_finally"}

Canonical ==
    << "extract_resume", "extract_jd", "build_resume", "call_resume", "diff",
       "render_resume", "build_cover", "call_cover", "render_cover" >>

Started(step) == \E k \in 1..Len(steps) : steps[k] = step

\* C10: the steps of a run start in the order extract resume, extract job
\* description, build, call, diff, render, then the same three for the
\* cover letter; at most one request is issued for the resume and at most
\* one for the cover letter; a request is issued only with both files
\* uploaded and both extractions returned; the cover-letter request only
\* with the checkbox set and after the resume call returned; a failed call
\* ends the run with no further request.
C10_OrderAndNoRetry ==
    /\ IsPrefix(steps, Canonical)
    /\ requests.resume <= 1
    /\ requests.cover <= 1
    /\ ~NoRequests =>
          /\ ui.button
          /\ ui.resume_file # None /\ ui.jd_file # None
          /\ Started("build_resume")
    /\ Started("build_cover") => ui.include_cover
    /\ requests.cover > 0 =>
          /\ ui.include_cover
          /\ requests.resume = 1
          /\ Started("diff")
    /\ (pc = "failed" /\ error \in ChatErrors) =>
          /\ requests[doc] = 1
          /\ doc = "resume" => requests.cover = 0

C10_Witness ==
    /\ pc = "done"
    /\ requests = [resume |-> 1, cover |-> 1]
    /\ steps = Canonical

=============================================================================
